---------------------------- MODULE Spec2Model ----------------------------
(***************************************************************************)
(* Model of src/src/qr_detector/qr_detector.py: class QRDetector.           *)
(*                                                                         *)
(* One QRDetector object, used from one thread.  The caller starts one of   *)
(* decode, read_from_file, read_from_bytes or scan_qr; the external         *)
(* collaborators (cv2 decoder, codec, camera, display, clock) are inputs    *)
(* drawn from small sets.  One step of decode is one pass of its            *)
(* `for angle in rotation_angles` loop; one step of scan_qr is one of the   *)
(* stages of its `while True` loop.                                         *)
(*                                                                         *)
(* Time is kept in milliseconds, relative to last_scan_time: `elapsed` is   *)
(* time.time() - last_scan_time at the latest clock read, saturated at      *)
(* ElapsedCap (the code only ever compares that difference with             *)
(* scan_interval).                                                         *)
(***************************************************************************)
EXTENDS Integers, Sequences, FiniteSets, TLC

\* ---------------------------------------------------------------- bounds
\* at most this many QR symbols in one image
MaxCodes == 2
\* saturation point of the elapsed-time difference (ms)
ElapsedCap == 150

\* ------------------------------------------------------ program constants
\* scan_interval = 0.1 s, in ms (line 163)
ScanIntervalMs == 100
\* `if confirmation_count >= 3` (line 300)
ConfirmThreshold == 3
\* the number of fallback layers of a live scan attempt (lines 244-278)
NumLayers == 4

\* rotation_angles (line 61)
rotation_angles == <<0, 45, -45, 90, -90>>

\* the texts a QR symbol may carry
Texts == {"A", "B"}
\* Python's None, where a text is expected
NoText == "None"

\* clock advance between two reads of time.time() (ms)
Deltas == {0, 50, 100, 150}

Min(a, b) == IF a < b THEN a ELSE b

\* what the symbols in an image decode to: up to MaxCodes texts
Infos == UNION {[1..n -> Texts] : n \in 0..MaxCodes}

\* the images a caller can pass to decode: None, a zero-size array, or a
\* pixel grid showing the symbols `info`
Images ==
    {[kind |-> "null", info |-> <<>>], [kind |-> "empty", info |-> <<>>]}
        \cup {[kind |-> "ok", info |-> i] : i \in Infos}

\* the frames a camera can deliver
Frames == {[kind |-> "ok", info |-> i] : i \in Infos}

NoImage == [kind |-> "null", info |-> <<>>]

\* decoded_info of detectAndDecodeMulti on an image showing `info`: nothing
\* detected, or one string per symbol, '' for a symbol that was located but
\* not decoded
Responses(info) ==
    {<<>>} \cup
    {[i \in 1..Len(info) |-> IF i \in S THEN info[i] ELSE ""] :
        S \in SUBSET (1..Len(info))}

\* what one pass of the rotation loop can meet: a transform raising, the
\* decoder raising, or the decoder returning decoded_info
VariantOutcomes(info) ==
    {[kind |-> "xraise", info |-> <<>>], [kind |-> "draise", info |-> <<>>]}
        \cup {[kind |-> "info", info |-> r] : r \in Responses(info)}

IsNonEmpty(s) == s # ""

\* [QRResult(data.encode('utf-8')) for data in decoded_info if data]
FilterNoData(decoded_info) == decoded_info
FilterData(decoded_info) == SelectSeq(decoded_info, IsNonEmpty)

VARIABLES
    op,                 \* the method the caller invoked, "none" before
    pc,                 \* control position
    outcome,            \* of the finished method: "none", "returned", "raised"
    result,             \* the list a single-shot method returned
    img,                \* decode's argument
    angle_idx,          \* index into rotation_angles of the next pass
    all_results,        \* decode's local
    calls,              \* angles handed to detectAndDecodeMulti, in order
    transforms,         \* number of rotate_image calls
    hit_at,             \* positions in calls of the responses holding a non-empty string
    hit_info,           \* the decoded_info of the latest such response
    clean,              \* TRUE while no pass of this decode raised
    d_outcome,          \* of the latest decode: "none", "returned", "raised"
    d_result,           \* the list the latest decode returned
    src,                \* the reader's input
    codec_calls,        \* calls of cv2.imread / cv2.imdecode
    pipeline_calls,     \* calls of self.decode made by a reader
    source_open,        \* the camera is held by cap
    window_open,        \* the scanner window exists
    lstate,             \* state of the live controller
    scan_text,          \* what scan_qr returned: a text or None
    elapsed,            \* time.time() - last_scan_time at the latest read
    last_detected_qr,
    confirmation_count,
    process_this_frame,
    frame,              \* the frame of this iteration
    layer,              \* the fallback layer being tried, 1..NumLayers
    results,            \* scan_qr's local; <<>> stands for None and for []
    r_idx,              \* position of `for result in results`
    parity,             \* index of this iteration, modulo 2
    alt_stream,         \* TRUE while frame i showed A for even i, B for odd i
    alt_dets,           \* TRUE while every detection differed from the one before
    dets,               \* detections of each text so far, counted up to the threshold
    since_attempt,      \* time since the latest scan attempt began (or the start)
    gap,                \* <<that time when the latest attempt began>>, <<>> before
    key_q,              \* the user has pressed 'q' and no waitKey has returned it yet
    other,              \* another task on the caller's event loop: "none", "pending", "ran"
    scanned,            \* a scan attempt was made in this iteration
    attempts,           \* scan attempts so far, counted up to the threshold + 1
    first_hit           \* results of the first layer of this attempt that gave any

dvars == <<img, angle_idx, all_results, calls, transforms, hit_at, hit_info,
           clean, d_outcome, d_result>>
rvars == <<src, codec_calls, pipeline_calls>>
tvars == <<op, pc, outcome, result>>
lvars == <<source_open, window_open, lstate, scan_text, elapsed,
           last_detected_qr, confirmation_count, process_this_frame, frame,
           layer, results, r_idx, parity, alt_stream, alt_dets, dets,
           since_attempt, gap>>
xvars == <<key_q, other, scanned, attempts, first_hit>>
vars == <<tvars, dvars, rvars, lvars, xvars>>

NoSrc == [kind |-> "none", present |-> FALSE, codec |-> "none"]

Init ==
    /\ op = "none"
    /\ pc = "idle"
    /\ outcome = "none"
    /\ result = <<>>
    /\ img = NoImage
    /\ angle_idx = 1
    /\ all_results = <<>>
    /\ calls = <<>>
    /\ transforms = 0
    /\ hit_at = <<>>
    /\ hit_info = <<>>
    /\ clean = TRUE
    /\ d_outcome = "none"
    /\ d_result = <<>>
    /\ src = NoSrc
    /\ codec_calls = 0
    /\ pipeline_calls = 0
    /\ source_open = FALSE
    /\ window_open = FALSE
    /\ lstate = "NONE"
    /\ scan_text = NoText
    /\ elapsed = 0
    /\ last_detected_qr = NoText
    /\ confirmation_count = 0
    /\ process_this_frame = TRUE
    /\ frame = NoImage
    /\ layer = 1
    /\ results = <<>>
    /\ r_idx = 1
    /\ parity = 0
    /\ alt_stream = TRUE
    /\ alt_dets = TRUE
    /\ dets = [t \in Texts |-> 0]
    /\ since_attempt = 0
    /\ gap = <<>>
    /\ key_q = FALSE
    /\ other = "none"
    /\ scanned = FALSE
    /\ attempts = 0
    /\ first_hit = <<>>

\* ------------------------------------------------------------------ decode
\* `img is None or img.size == 0` (line 57)
InvalidImageNever(i) == FALSE
InvalidImage(i) == i.kind \in {"null", "empty"}

\* what a single-shot reader does with the outcome of `return
\* self.decode(img)`: the list is returned as it is, and QRDetectorError is
\* re-raised by `except QRDetectorError: raise` (lines 98-100, 118-120)
ReaderOutcome(dout) == dout
ReaderValue(dout, dval) == IF dout = "returned" THEN dval ELSE <<>>

\* `results = self.decode(...)` inside try/except (lines 245-249, 253-258,
\* 262-267, 271-278): a raise leaves results as it was
LayerResults(res, dout, dval) == IF dout = "returned" THEN dval ELSE res

\* `if not results:` before layers 2, 3 and 4 (lines 252, 261, 270)
NextLayerDueAlways(res) == TRUE
NextLayerDueNever(res) == FALSE
NextLayerDue(res) == res = <<>>

\* a layer's decode has ended: the next layer is tried while results is
\* empty, then `if results:` (line 281) starts the loop over the results
LayerDone(dout, dval) ==
    LET res == LayerResults(results, dout, dval)
    IN  /\ results' = res
        /\ first_hit' = IF first_hit = <<>> /\ dout = "returned"
                            THEN dval ELSE first_hit
        /\ outcome' = "none"
        /\ result' = <<>>
        /\ IF layer < NumLayers /\ NextLayerDue(res)
              THEN /\ pc' = "layer"
                   /\ layer' = layer + 1
              ELSE /\ pc' = IF res # <<>> THEN "tally" ELSE "tail"
                   /\ layer' = layer
        /\ r_idx' = 1
        /\ UNCHANGED <<source_open, window_open, lstate, scan_text, elapsed,
                       last_detected_qr, confirmation_count,
                       process_this_frame, frame, parity, alt_stream,
                       alt_dets, dets, since_attempt, gap>>

\* decode ends with outcome dout ("returned" with the list dval, or "raised"
\* by lines 83-86), and its caller goes on
Finish(caller, dout, dval) ==
    /\ d_outcome' = dout
    /\ d_result' = dval
    /\ IF caller = "decode"
          THEN /\ pc' = "done"
               /\ outcome' = dout
               /\ result' = dval
               /\ UNCHANGED <<lvars, first_hit>>
          ELSE
       IF caller \in {"read_from_file", "read_from_bytes"}
          THEN /\ pc' = "done"
               /\ outcome' = ReaderOutcome(dout)
               /\ result' = ReaderValue(dout, dval)
               /\ UNCHANGED <<lvars, first_hit>>
          ELSE /\ caller = "scan_qr"
               /\ LayerDone(dout, dval)

\* entry of decode(i), lines 56-62: an invalid image raises at line 58 (and
\* the handler of lines 83-86 re-raises), a valid one enters the loop
DecodeEnter(caller, i) ==
    /\ img' = i
    /\ all_results' = <<>>
    /\ calls' = <<>>
    /\ transforms' = 0
    /\ hit_at' = <<>>
    /\ hit_info' = <<>>
    /\ clean' = TRUE
    /\ angle_idx' = 1
    /\ IF InvalidImage(i)
          THEN Finish(caller, "raised", <<>>)
          ELSE /\ pc' = "dec"
               /\ d_outcome' = "none"
               /\ d_result' = <<>>
               /\ outcome' = "none"
               /\ result' = <<>>
               /\ UNCHANGED <<lvars, first_hit>>

\* the caller calls decode(i) directly
CallDecode ==
    /\ pc = "idle"
    /\ op = "none"
    /\ op' = "decode"
    /\ \E i \in Images : DecodeEnter("decode", i)
    /\ UNCHANGED <<rvars, key_q, other, scanned, attempts>>

\* `if results: break` (lines 79-80), else the loop goes on while angles remain
StopsFirst(res, idx) == TRUE
StopsNever(res, idx) == idx = Len(rotation_angles)
Stops(res, idx) == res # <<>> \/ idx = Len(rotation_angles)

\* one pass of `for angle in rotation_angles` (lines 64-80), and the return
\* of line 82 or the re-raise of lines 83-86 when the pass ends the loop
DecodeVariant ==
    /\ pc = "dec"
    /\ \E o \in VariantOutcomes(img.info) :
        /\ transforms' = transforms + 1
        /\ img' = img
        /\ UNCHANGED <<key_q, other, scanned, attempts>>
        /\ IF o.kind = "xraise"
              THEN /\ UNCHANGED <<angle_idx, all_results, calls, hit_at, hit_info>>
                   /\ clean' = FALSE
                   /\ Finish(op, "raised", <<>>)
                   /\ UNCHANGED <<op, rvars>>
              ELSE
           IF o.kind = "draise"
              THEN /\ calls' = Append(calls, rotation_angles[angle_idx])
                   /\ UNCHANGED <<angle_idx, all_results, hit_at, hit_info>>
                   /\ clean' = FALSE
                   /\ Finish(op, "raised", <<>>)
                   /\ UNCHANGED <<op, rvars>>
              ELSE LET found == FilterData(o.info)
                       anyText == \E k \in 1..Len(o.info) : o.info[k] # ""
                   IN  /\ calls' = Append(calls, rotation_angles[angle_idx])
                       /\ all_results' = all_results \o found
                       /\ hit_at' = IF anyText THEN Append(hit_at, Len(calls) + 1) ELSE hit_at
                       /\ hit_info' = IF anyText THEN o.info ELSE hit_info
                       /\ clean' = clean
                       /\ IF Stops(found, angle_idx)
                             THEN /\ angle_idx' = angle_idx
                                  /\ Finish(op, "returned", all_results')
                                  /\ UNCHANGED <<op, rvars>>
                             ELSE /\ angle_idx' = angle_idx + 1
                                  /\ UNCHANGED <<tvars, rvars, lvars, d_outcome, d_result,
                                                 first_hit>>

\* ------------------------------------------------------ single-shot readers
\* what cv2.imread / cv2.imdecode can do: return a pixel grid, return None,
\* or raise
CodecOutcomes == {"frame", "none", "raise"}

\* the guard before the codec: os.path.exists(file_path) (line 91),
\* `not img_bytes` (line 109)
InputPresentAlways(s) == TRUE
InputPresent(s) == s.present

\* read_from_file(path) (lines 88-104) and read_from_bytes(buf) (lines
\* 106-124) up to the call of decode: a missing file or an empty buffer
\* raises before the codec is called; a codec that returns None or raises
\* makes the reader raise QRDetectorError; otherwise decode(img) is entered
Reader(name, s, i) ==
    /\ op' = name
    /\ src' = s
    /\ other' = IF name = "read_from_bytes" THEN "pending" ELSE other
    /\ UNCHANGED <<key_q, scanned, attempts>>
    /\ IF ~InputPresent(s)
          THEN /\ codec_calls' = 0
               /\ pipeline_calls' = 0
               /\ pc' = "done"
               /\ outcome' = "raised"
               /\ result' = <<>>
               /\ UNCHANGED <<dvars, lvars, first_hit>>
          ELSE
       IF s.codec # "frame"
          THEN /\ codec_calls' = 1
               /\ pipeline_calls' = 0
               /\ pc' = "done"
               /\ outcome' = "raised"
               /\ result' = <<>>
               /\ UNCHANGED <<dvars, lvars, first_hit>>
          ELSE /\ codec_calls' = 1
               /\ pipeline_calls' = 1
               /\ DecodeEnter(name, i)

ReaderInputs(k) ==
    {[kind |-> k, present |-> p, codec |-> c] : p \in BOOLEAN, c \in CodecOutcomes}

CallReadFromFile ==
    /\ pc = "idle"
    /\ op = "none"
    /\ \E s \in ReaderInputs("file"), i \in Frames : Reader("read_from_file", s, i)

CallReadFromBytes ==
    /\ pc = "idle"
    /\ op = "none"
    /\ \E s \in ReaderInputs("bytes"), i \in Frames : Reader("read_from_bytes", s, i)

\* ------------------------------------------------------------ scan_qr
\* the `finally` of lines 333-335: cap.release(), cv2.destroyAllWindows()
Release ==
    /\ source_open' = FALSE
    /\ window_open' = FALSE

\* scan_qr leaves its loop: the finally block runs and the method ends in
\* state st, returning `text` (None unless confirmed) or raising
ExitReturnsCandidate(st, out, text) ==
    /\ pc' = "done"
    /\ lstate' = st
    /\ outcome' = out
    /\ scan_text' = last_detected_qr
    /\ Release
Exit(st, out, text) ==
    /\ pc' = "done"
    /\ lstate' = st
    /\ outcome' = out
    /\ scan_text' = text
    /\ Release

\* what opening the camera and creating the window can do (lines 148-157):
\* the camera does not open; namedWindow raises (an OpenCV build without GUI
\* support); an exception arrives after the window exists (resizeWindow
\* raising, or KeyboardInterrupt in lines 157-170); or all succeed
SetupOutcomes == {"closed", "named_raise", "resize_raise", "ok"}

\* scan_qr up to its loop, lines 148-170
StartScan ==
    /\ pc = "idle"
    /\ op = "none"
    /\ op' = "scan_qr"
    /\ \E o \in SetupOutcomes :
        /\ source_open' = (o # "closed")
        /\ window_open' = (o \in {"resize_raise", "ok"})
        /\ lstate' = CASE o = "closed" -> "OPEN_FAILED"
                       [] o = "ok" -> "RUNNING"
                       [] OTHER -> "ERROR"
        /\ pc' = IF o = "ok" THEN "read" ELSE "done"
        /\ outcome' = CASE o = "closed" -> "returned"
                        [] o = "ok" -> "none"
                        [] OTHER -> "raised"
    /\ scan_text' = NoText
    /\ elapsed' = 0
    /\ last_detected_qr' = NoText
    /\ confirmation_count' = 0
    /\ process_this_frame' = TRUE
    /\ UNCHANGED <<result, dvars, rvars, frame, layer, results, r_idx, parity,
                   alt_stream, alt_dets, dets, since_attempt, gap, xvars>>

\* `current_time - last_scan_time > scan_interval and process_this_frame`
\* (line 219)
DueFlagOnly(e, flag) == flag
DueIntervalOnly(e, flag) == e > ScanIntervalMs
Due(e, flag) == e > ScanIntervalMs /\ flag

\* the frame of iteration i of a stream alternating between two contents
AltFrame(p) == IF p = 0 THEN <<"A">> ELSE <<"B">>

\* what building the region of interest and its enhanced versions can do
\* (lines 225-239): succeed, give an empty ROI, or raise
RoiOutcomes == {"ok", "empty", "raise"}

\* top of the loop, lines 175-242: read a frame, draw the overlay, read the
\* clock and decide whether a scan attempt is due.  The first disjunct is
\* `not ret or frame is None` (lines 176-178); the second is an exception
\* that leaves the loop through the finally block (KeyboardInterrupt while
\* cap.read() blocks, or a drawing call of lines 181-215 raising).  Display
\* calls inside the try of lines 223-320 are taken not to raise.
ReadFrame ==
    /\ pc = "read"
    /\ \/ /\ Exit("STREAM_ERROR", "returned", NoText)
          /\ UNCHANGED <<elapsed, frame, layer, results, r_idx, alt_stream,
                         since_attempt, gap, scanned, attempts>>
       \/ /\ Exit("ERROR", "raised", NoText)
          /\ UNCHANGED <<elapsed, frame, layer, results, r_idx, alt_stream,
                         since_attempt, gap, scanned, attempts>>
       \/ \E f \in Frames, d \in Deltas, roi \in RoiOutcomes :
            LET e == Min(elapsed + d, ElapsedCap)
                t == Min(since_attempt + d, ElapsedCap)
            IN  /\ frame' = f
                /\ alt_stream' = (alt_stream /\ f.info = AltFrame(parity))
                /\ IF Due(e, process_this_frame)
                      THEN /\ elapsed' = 0
                           /\ since_attempt' = 0
                           /\ gap' = <<t>>
                           /\ scanned' = TRUE
                           /\ attempts' = Min(attempts + 1, ConfirmThreshold + 1)
                           /\ pc' = IF roi = "ok" THEN "layer" ELSE "tail"
                      ELSE /\ elapsed' = e
                           /\ since_attempt' = t
                           /\ gap' = gap
                           /\ UNCHANGED <<scanned, attempts>>
                           /\ pc' = "tail"
                /\ layer' = 1
                /\ results' = <<>>
                /\ r_idx' = 1
                /\ UNCHANGED <<outcome, lstate, scan_text, source_open,
                               window_open>>
    /\ UNCHANGED <<op, result, dvars, rvars, last_detected_qr,
                   confirmation_count, process_this_frame, parity, alt_dets,
                   dets, key_q, other, first_hit>>

\* a fallback layer calls self.decode on its version of the frame (lines
\* 246, 255, 264, 275)
LayerCall ==
    /\ pc = "layer"
    /\ DecodeEnter("scan_qr", frame)
    /\ UNCHANGED <<op, rvars, key_q, other, scanned, attempts>>

\* the counter after a detection of `decoded` (lines 286-291)
CountAfterNoReset(decoded, last, count) == count + 1
CountAfter(decoded, last, count) == IF decoded = last THEN count + 1 ELSE 1

\* `if confirmation_count >= 3` (line 300)
ConfirmedAtTwo(count) == count >= ConfirmThreshold - 1
Confirmed(count) == count >= ConfirmThreshold

\* one pass of `for result in results` (lines 282-316)
Tally ==
    /\ pc = "tally"
    /\ LET decoded == results[r_idx]
           count == CountAfter(decoded, last_detected_qr, confirmation_count)
       IN  /\ last_detected_qr' = decoded
           /\ confirmation_count' = count
           /\ dets' = [dets EXCEPT ![decoded] = Min(@ + 1, ConfirmThreshold)]
           /\ alt_dets' = (alt_dets /\ decoded # last_detected_qr)
           /\ IF Confirmed(count)
                 THEN /\ Exit("CONFIRMED", "returned", decoded)
                      /\ r_idx' = r_idx
                 ELSE /\ pc' = IF r_idx < Len(results) THEN "tally" ELSE "tail"
                      /\ r_idx' = IF r_idx < Len(results) THEN r_idx + 1 ELSE r_idx
                      /\ UNCHANGED <<outcome, lstate, scan_text, source_open,
                                     window_open>>
    /\ UNCHANGED <<op, result, dvars, rvars, elapsed, process_this_frame,
                   frame, layer, results, parity, alt_stream, since_attempt,
                   gap, xvars>>

\* what the end of an iteration can meet: an exception leaving the loop
\* (imshow or waitKey raising, KeyboardInterrupt), the key 'q', or no key
KeyOutcomes == {"raise", "q", "none"}

\* `cv2.waitKey(1) & 0xFF == ord('q')` (line 329)
CancelsNever(k) == FALSE
Cancels(k) == k = "q"

\* end of the iteration, lines 323-331: toggle the flag, show the frame,
\* poll the keyboard.  A 'q' pressed earlier in the iteration waits in the
\* window's event queue and is what waitKey(1) returns.
EndIteration ==
    /\ pc = "tail"
    /\ process_this_frame' = ~process_this_frame
    /\ \E k \in KeyOutcomes :
        /\ key_q => k # "none"
        /\ IF Cancels(k)
              THEN /\ Exit("CANCELLED", "returned", NoText)
                   /\ parity' = parity
              ELSE
           IF k = "raise"
              THEN /\ Exit("ERROR", "raised", NoText)
                   /\ parity' = parity
              ELSE /\ pc' = "read"
                   /\ parity' = 1 - parity
                   /\ UNCHANGED <<outcome, lstate, scan_text, source_open,
                                  window_open>>
    /\ scanned' = FALSE
    /\ first_hit' = <<>>
    /\ UNCHANGED <<key_q, other, attempts>>
    /\ img' = NoImage
    /\ angle_idx' = 1
    /\ all_results' = <<>>
    /\ calls' = <<>>
    /\ transforms' = 0
    /\ hit_at' = <<>>
    /\ hit_info' = <<>>
    /\ clean' = TRUE
    /\ d_outcome' = "none"
    /\ d_result' = <<>>
    /\ frame' = NoImage
    /\ results' = <<>>
    /\ layer' = 1
    /\ r_idx' = 1
    /\ UNCHANGED <<op, result, rvars, elapsed, last_detected_qr,
                   confirmation_count, alt_stream, alt_dets, dets,
                   since_attempt, gap>>

\* the user presses 'q' while the scanner runs
PressKey ==
    /\ op = "scan_qr"
    /\ pc \in {"read", "layer", "dec", "tally", "tail"}
    /\ ~key_q
    /\ key_q' = TRUE
    /\ UNCHANGED <<tvars, dvars, rvars, lvars, other, scanned, attempts,
                   first_hit>>

\* the control positions at which read_from_bytes awaits: lines 106-124 hold
\* no await, so there is none
SuspensionPoints == {}

\* the event loop runs the other pending task: only when the running
\* coroutine is suspended or has ended
OtherTask ==
    /\ other = "pending"
    /\ pc \in SuspensionPoints \cup {"done"}
    /\ other' = "ran"
    /\ UNCHANGED <<tvars, dvars, rvars, lvars, key_q, scanned, attempts,
                   first_hit>>

Next ==
    \/ CallDecode
    \/ DecodeVariant
    \/ CallReadFromFile
    \/ CallReadFromBytes
    \/ StartScan
    \/ ReadFrame
    \/ LayerCall
    \/ Tally
    \/ EndIteration
    \/ PressKey
    \/ OtherTask

Spec == Init /\ [][Next]_vars

\* The live scan in a benign environment: the camera opens, every frame
\* arrives and shows the one text "A", no call outside decode raises, the ROI
\* is usable, every scan attempt ends with a detection, the clock advances
\* between frames and no key is pressed.
LiveNext ==
    \/ StartScan /\ lstate' = "RUNNING"
    \/ /\ ReadFrame
       /\ pc' # "done"
       /\ frame'.info = <<"A">>
       /\ scanned' => pc' = "layer"
       /\ scanned' \/ elapsed' > elapsed \/ elapsed = ElapsedCap
    \/ LayerCall
    \/ DecodeVariant /\ pc' # "tail"
    \/ Tally
    \/ EndIteration /\ pc' = "read"

\* the loop of lines 173-331 keeps running until it is left
LiveSpec == Init /\ [][LiveNext]_vars /\ WF_vars(LiveNext)

\* ------------------------------------------------------------ properties
IsPrefix(s, t) == Len(s) <= Len(t) /\ \A i \in 1..Len(s) : s[i] = t[i]

\* the non-empty strings of a decoder response, in its order
RECURSIVE NonEmptyOf(_)
NonEmptyOf(s) ==
    IF s = <<>> THEN <<>>
    ELSE IF Head(s) = "" THEN NonEmptyOf(Tail(s))
         ELSE <<Head(s)>> \o NonEmptyOf(Tail(s))

\* C1: decode hands the rotation variants to the decoder in the order
\* 0, 45, -45, 90, -90, and a variant is evaluated only if no earlier one
\* yielded a non-empty payload: at most one response holds a payload, it is
\* the last invocation, and decode has returned; so a payload at 0 degrees
\* means exactly one invocation.
C1_EarlyExit ==
    /\ IsPrefix(calls, rotation_angles)
    /\ Len(hit_at) <= 1
    /\ hit_at # <<>> =>
          /\ hit_at[1] = Len(calls)
          /\ transforms = Len(calls)
          /\ d_outcome = "returned"
    /\ pc = "dec" => hit_at = <<>> /\ Len(calls) = angle_idx - 1

C1_Witness ==
    /\ op = "decode"
    /\ d_outcome = "returned"
    /\ calls = <<0, 45, -45>>
    /\ hit_at = <<3>>

\* C2: the list decode returns is exactly the non-empty strings of the
\* decoder's response for the first successful variant, in the decoder's
\* order (empty if there was none): no empty payload, nothing from another
\* variant.
C2_ResultOfFirstHit ==
    d_outcome = "returned" =>
        /\ d_result = NonEmptyOf(hit_info)
        /\ \A k \in 1..Len(d_result) : d_result[k] # ""
        /\ op = "decode" => outcome = "returned" /\ result = d_result

C2_Witness ==
    /\ op = "decode"
    /\ d_outcome = "returned"
    /\ Len(calls) = 2
    /\ hit_info = <<"", "B">>
    /\ result = <<"B">>

\* C3: when the decoder answers every variant of a valid frame with nothing
\* or only empty strings, decode ends after exactly five invocations and
\* returns the empty list without raising; the loop never goes beyond five.
C3_ExhaustsFive ==
    /\ Len(calls) <= Len(rotation_angles)
    /\ pc = "dec" => angle_idx <= Len(rotation_angles)
    /\ (d_outcome # "none" /\ img.kind = "ok" /\ clean /\ hit_at = <<>>) =>
          /\ Len(calls) = 5
          /\ d_outcome = "returned"
          /\ d_result = <<>>

C3_Witness ==
    /\ op = "decode"
    /\ pc = "done"
    /\ outcome = "returned"
    /\ result = <<>>
    /\ Len(calls) = 5
    /\ img.info = <<"A">>

\* C4: a failure raised while one rotation variant is processed does not
\* make the scan fail.
C4_VariantFailureContained == ~clean => d_outcome # "raised"

\* C5: decode on a null or zero-size frame fails before any transform is
\* applied and before the decoder is invoked.
C5_InvalidFailsFast ==
    (op = "decode" /\ img.kind \in {"null", "empty"}) =>
        /\ pc = "done"
        /\ outcome = "raised"
        /\ d_outcome = "raised"
        /\ transforms = 0
        /\ calls = <<>>

C5_Witness ==
    /\ op = "decode"
    /\ img.kind = "empty"
    /\ outcome = "raised"

\* C6: a reader given an empty buffer or a missing file fails without
\* calling the codec or decode; a reader whose codec yields no frame fails
\* without calling decode; in every other case decode is called once and
\* the reader ends as decode ends, returning the list decode returned.
C6_ReadersValidate ==
    op \in {"read_from_file", "read_from_bytes"} =>
        /\ ~src.present =>
              /\ pc = "done" /\ outcome = "raised"
              /\ codec_calls = 0 /\ pipeline_calls = 0
        /\ (src.present /\ src.codec # "frame") =>
              /\ pc = "done" /\ outcome = "raised"
              /\ codec_calls = 1 /\ pipeline_calls = 0
        /\ (src.present /\ src.codec = "frame") =>
              /\ codec_calls = 1 /\ pipeline_calls = 1
              /\ pc = "done" =>
                    /\ outcome = d_outcome
                    /\ d_outcome = "returned" => result = d_result

C6_Witness ==
    /\ op = "read_from_bytes"
    /\ pc = "done"
    /\ outcome = "returned"
    /\ result = <<"A", "B">>
    /\ d_result = <<"A", "B">>

C8_AlternatingFramesNeverConfirm == alt_stream => lstate # "CONFIRMED"

\* C8 amended: while every detection differs from the detection before it,
\* the counter never passes 1 and CONFIRMED is not reached.
C8_AlternatingDetectionsNeverConfirm ==
    alt_dets => confirmation_count <= 1 /\ lstate # "CONFIRMED"

C8_Witness ==
    /\ alt_dets
    /\ lstate = "RUNNING"
    /\ dets["A"] = 2
    /\ dets["B"] = 2

\* C9: every scan attempt sets last_scan_time to the current time, whatever
\* the attempt then finds, and an attempt begins only when more than the
\* scan interval has passed since the attempt before it (or the start): two
\* attempts are never less than the interval apart.
C9_Throttle ==
    /\ elapsed = since_attempt
    /\ \A i \in 1..Len(gap) : gap[i] > ScanIntervalMs
    /\ (op = "scan_qr" /\ pc \in {"layer", "dec", "tally"}) => elapsed = 0

C9_Witness ==
    /\ pc = "tail"
    /\ layer = NumLayers
    /\ d_outcome = "raised"
    /\ gap # <<>>
    /\ elapsed = 0

\* C10: when scan_qr has ended, on whatever path, the camera is closed and
\* the window is gone.
C10_ReleasedOnEveryExit ==
    (op = "scan_qr" /\ pc = "done") => ~source_open /\ ~window_open

\* C11 as stated: a 'q' pressed at any point while the scanner runs ends the
\* run CANCELLED with no result (unless the stream or an exception ends it
\* first).
C11_CancelAlwaysWins ==
    (op = "scan_qr" /\ pc = "done" /\ key_q
        /\ lstate \notin {"STREAM_ERROR", "ERROR"}) =>
        lstate = "CANCELLED" /\ scan_text = NoText

\* C11 amended: the key is polled at the end of the iteration only: an
\* iteration that reaches its end with 'q' pressed ends the run CANCELLED
\* (or by an exception), never going on to the next frame, and CANCELLED
\* returns nothing with the camera released.
C11_CancelAtPoll ==
    [][ /\ (op = "scan_qr" /\ pc = "tail" /\ key_q /\ pc' # "tail") =>
              /\ pc' = "done"
              /\ lstate' \in {"CANCELLED", "ERROR"}
              /\ scan_text' = NoText
        /\ lstate' = "CANCELLED" =>
              /\ scan_text' = NoText
              /\ outcome' = "returned"
              /\ ~source_open' ]_vars

C11_Witness ==
    /\ lstate = "CANCELLED"
    /\ key_q
    /\ confirmation_count = 2

\* C12: while read_from_bytes is in its decode step, another pending task of
\* the same event loop can run.
C12_SuspensionPoint ==
    (op = "read_from_bytes" /\ pc = "dec" /\ other = "pending") =>
        ENABLED OtherTask

\* C13: the candidate and the counter are updated at most once per scan
\* attempt (only the first payload of the result set is used), so CONFIRMED
\* takes at least 3 scan attempts.
C13_OncePerAttempt ==
    op = "scan_qr" =>
        /\ r_idx = 1
        /\ lstate = "CONFIRMED" => attempts >= 3

\* C14 as stated: in live mode a fallback layer causes at most one decoder
\* invocation.
C14_NoSweepInLive == op = "scan_qr" => Len(calls) <= 1

\* C14 amended: every fallback layer runs decode with its rotation sweep: up
\* to five decoder invocations per layer, and all five when the layer
\* returns nothing; there are at most four layers.
C14_SweepPerLayer ==
    op = "scan_qr" =>
        /\ layer \in 1..NumLayers
        /\ Len(calls) <= 5
        /\ (d_outcome = "returned" /\ d_result = <<>>) => Len(calls) = 5

C14_Witness ==
    /\ op = "scan_qr"
    /\ pc = "tail"
    /\ layer = 4
    /\ d_outcome = "returned"
    /\ Len(calls) = 5

\* C15: while the loop runs the flag is set exactly on even-numbered
\* iterations (it starts set and is toggled by every iteration that goes
\* on), and a scan attempt is made only with the flag set and the interval
\* elapsed: only on even-numbered iterations, never on two in a row.
C15_FrameAlternation ==
    op = "scan_qr" =>
        /\ pc \in {"read", "layer", "dec", "tally", "tail"} =>
              process_this_frame = (parity = 0)
        /\ pc \in {"layer", "dec", "tally"} => scanned
        /\ scanned => /\ parity = 0
                      /\ gap # <<>>
                      /\ gap[1] > ScanIntervalMs

C15_Witness ==
    /\ pc = "tail"
    /\ scanned
    /\ attempts = 2

\* C16: the layers of a scan attempt are tried in the order 1, 2, 3, 4
\* (ROI colour, ROI grey, ROI binary, full-frame binary); a layer is tried
\* only while no earlier layer gave a non-empty result, and the results
\* that are tallied are those of the first layer that gave any.
C16_LayerOrder ==
    [][ op' = "scan_qr" =>
          /\ layer' \in 1..NumLayers
          /\ pc' \in {"layer", "dec"} => first_hit' = <<>> /\ results' = <<>>
          /\ pc' = "tally" =>
                /\ results' # <<>>
                /\ results' = first_hit'
          /\ layer' # layer =>
                \/ layer' = 1 /\ pc' \in {"read", "done"}
                \/ layer' = layer + 1 /\ pc = "dec" /\ pc' = "layer" ]_vars

C16_Witness ==
    /\ pc = "tally"
    /\ layer = 3
    /\ results = <<"A", "B">>

\* C17: a layer whose decode raises counts as a layer without result: the
\* controller stays RUNNING, results, candidate and counter stay as they
\* were, and the next layer (after the last layer, the end of the
\* iteration) follows.
C17_LayerFailureContained ==
    [][ (op = "scan_qr" /\ pc = "dec" /\ d_outcome' = "raised") =>
          /\ lstate' = "RUNNING"
          /\ results' = results
          /\ last_detected_qr' = last_detected_qr
          /\ confirmation_count' = confirmation_count
          /\ IF layer < NumLayers
                THEN pc' = "layer" /\ layer' = layer + 1
                ELSE pc' = "tail" ]_vars

C17_Witness ==
    /\ op = "scan_qr"
    /\ lstate = "RUNNING"
    /\ pc = "layer"
    /\ layer = 4
    /\ d_outcome = "raised"
    /\ confirmation_count = 2

\* C18 as stated: once the camera is open and the loop entered (its
\* finally block has released the camera), the run has ended in CONFIRMED,
\* CANCELLED or STREAM_ERROR.
C18_OnlyThreeEnds ==
    (op = "scan_qr" /\ pc = "done" /\ ~source_open
        /\ lstate # "OPEN_FAILED") =>
        lstate \in {"CONFIRMED", "CANCELLED", "STREAM_ERROR"}

\* C18 amended: once the camera is open, scan_qr returns only in CONFIRMED,
\* CANCELLED or STREAM_ERROR, and ends otherwise only by an exception that
\* propagates with no result; a failed frame ends it in STREAM_ERROR with
\* no scan attempt in that iteration; a text is returned only in CONFIRMED;
\* and after the end no frame is read and no decode is made.
C18_TerminalStates ==
    op = "scan_qr" =>
        /\ (pc = "done") = (lstate # "RUNNING")
        /\ (pc = "done" /\ lstate # "OPEN_FAILED") =>
              \/ /\ outcome = "returned"
                 /\ lstate \in {"CONFIRMED", "CANCELLED", "STREAM_ERROR"}
              \/ /\ outcome = "raised"
                 /\ lstate = "ERROR"
                 /\ scan_text = NoText
        /\ lstate = "STREAM_ERROR" =>
              ~scanned /\ frame = NoImage /\ d_outcome = "none"
        /\ scan_text # NoText => lstate = "CONFIRMED" /\ outcome = "returned"
        /\ pc = "done" =>
              /\ ~ENABLED ReadFrame
              /\ ~ENABLED LayerCall
              /\ ~ENABLED DecodeVariant
              /\ ~ENABLED Tally

C18_Witness ==
    /\ lstate = "STREAM_ERROR"
    /\ pc = "done"
    /\ confirmation_count = 2

\* C19: the candidate and the counter change only when a payload is
\* tallied: by one more for the same text, back to 1 for a different text;
\* iterations without detection leave both as they are.
C19_NoDetectionNoChange ==
    [][ (op = "scan_qr"
          /\ <<last_detected_qr, confirmation_count>>'
                # <<last_detected_qr, confirmation_count>>) =>
          /\ pc = "tally"
          /\ IF results[r_idx] = last_detected_qr
                THEN /\ confirmation_count' = confirmation_count + 1
                     /\ last_detected_qr' = last_detected_qr
                ELSE /\ confirmation_count' = 1
                     /\ last_detected_qr' = results[r_idx] ]_vars

C19_Witness ==
    /\ pc = "tail"
    /\ scanned
    /\ layer = NumLayers
    /\ results = <<>>
    /\ confirmation_count = 2
\* C20: in the benign environment of LiveSpec the live scan eventually ends
\* CONFIRMED with the text shown, on its third scan attempt.
C20_EventuallyConfirmed ==
    <>(lstate = "CONFIRMED" /\ scan_text = "A" /\ attempts = 3)

C20_Witness ==
    /\ op = "scan_qr"
    /\ pc = "done"
    /\ lstate = "CONFIRMED"
    /\ scan_text = "A"
    /\ attempts = 3
    /\ ~key_q

=============================================================================
